---- MODULE Spec2Model ----
(***************************************************************************)
(* Model of the rag-service: the /rag/store and /rag/query handlers of     *)
(* routers/rag_agent.py and the PineconeService methods they call.         *)
(* One request is served at a time (the handlers are synchronous); a       *)
(* handler is split into steps at its external capability calls (embed,    *)
(* upsert, query, generate), each of which may succeed or raise.           *)
(***************************************************************************)
EXTENDS Integers, Sequences, FiniteSets, TLC

(* ------------------------------ bounds -------------------------------- *)
\* most records the index holds
MaxRecords == 2
\* most chunks split_text returns for one content
MaxChunks == 2
\* most nodes get_nodes_from_documents makes of one document
MaxSplit == 2
\* largest topK a query request carries
MaxTopK == 2
\* threads that call the get_*_service functions
NumThreads == 2
\* most upsert batches the index of the long-content specification holds
MaxBatches == 3
\* vectors handed to upsert_vectors in a direct call
MaxVectors == 3
\* the largest batch_size handed to upsert_vectors in a direct call
MaxBatchSize == 2
\* chunks handed to _build_context in a direct call
MaxContext == 2
\* candidate embeddings handed to find_most_similar
MaxCandidates == 3
\* the largest top_k handed to find_most_similar
MaxSimilarK == 4

(* ------------------------- program constants -------------------------- *)
\* batch_size passed by store_documents to upsert_vectors
BatchSize == 100

(* ------------------------------ inputs -------------------------------- *)
\* tenant ids and document ids: empty, plain, and containing the separator
UserIds == {"", "a", "a_b"}
Emails == {"", "c", "b_c"}
Titles == {"T"}
\* request texts as character sequences: empty, whitespace-only, non-blank
Whitespace == {" ", "\t", "\n"}
Contents == {<< >>, <<" ">>, <<"\t", "\n">>, <<" ", "x">>}
Queries == {<< >>, <<"\n">>, <<"q">>}
TopKs == 1..MaxTopK
\* similarity scores the store reports, in units of 1/100000
Scores == {50000, 90006}
\* messages of the exceptions the external capabilities raise
Causes == {"timeout", "quota"}

\* the three capabilities held as module-level singletons
Services == {"embedding", "pinecone", "llm"}
Threads == 1..NumThreads
\* a thread that is in none of the get_*_service functions
IdleThread == [pc |-> "idle"]
\* the argument of a get_*_service call (model_name, dimension, model):
\* the default or another value
ServiceArgs == {"default", "other"}
\* the global before the first construction (None)
NoInstance == [id |-> 0]

NoFilter == [none |-> TRUE]
NoResp == [status |-> 0]
NoReq == [kind |-> "none"]
NoQuery == [made |-> FALSE]
\* the chunk dicts of direct _build_context calls: complete, and with keys
\* missing
ChunkChoices ==
    {[score |-> 90006, title |-> "T", text |-> "x", timestamp |-> "now"],
     [score |-> 50000, text |-> "y"],
     [title |-> "U"]}
ChunkLists == UNION {[1..n -> ChunkChoices] : n \in 0..MaxContext}
\* cosine similarities of candidates to the query, in tenths
SimValues == {-3, 0, 7}
SimLists == UNION {[1..n -> SimValues] : n \in 0..MaxCandidates}
\* _build_context has not been called
NoContext == [built |-> FALSE]
\* find_most_similar has not been called
NoSimilar == [made |-> FALSE]
\* the callers of upsert_vectors: two, running concurrently
Callers == {1, 2}
\* a caller that is not in upsert_vectors
IdleCaller == [pc |-> "idle"]
\* the namespaces of direct upsert_vectors calls
DirectNamespaces == {"n1", "n2"}

VARIABLES
    index,      \* the Pinecone index: the set of stored records
    pc,         \* position of the handler serving the current request
    req,        \* the current request
    nodes,      \* store_rag_data: nodes
    vectors,    \* store_documents: pinecone_vectors
    namespace,  \* the namespace local of store_documents / retrieve_rag_data / search_documents
    i,          \* upsert_vectors: loop variable
    matches,    \* retrieve_rag_data: pinecone_results
    context,    \* retrieve_rag_data: context_chunks handed to the LLM
    resp,       \* the HTTP response of the current request
    calls,      \* capability calls made while serving the current request
    lastQuery,  \* arguments of the index.query call of the current request
    index0,     \* the index when the current request began
    raised,     \* message of the exception a capability call raised in the
                \* current request ("" when none did)
    instance,   \* the module globals _embedding/_pinecone/_llm_service_instance
    constructed,\* how many instances of each service were ever constructed
    threads,    \* the callers of get_*_service: position and locals of each
    llm_context,\* generate_response: the context _build_context returned
    similar,    \* the last find_most_similar call: arguments and result
    upserts,    \* the running upsert_vectors calls: arguments and locals
    upsertLog   \* the index.upsert calls made, in the order the store got them

\* the state of request handling
reqVars == <<index, pc, req, nodes, vectors, namespace, i, matches,
             context, resp, calls, lastQuery, index0, raised>>

\* the state of the service singletons
svcVars == <<instance, constructed, threads>>

\* the state of the calls made on the services directly
libVars == <<llm_context, similar, upserts, upsertLog>>

vars == <<index, pc, req, nodes, vectors, namespace, i, matches,
          context, resp, calls, lastQuery, index0, raised,
          instance, constructed, threads,
          llm_context, similar, upserts, upsertLog>>

(* --------------------------- pure functions --------------------------- *)

\* str.strip(): drop leading and trailing whitespace
RECURSIVE LStrip(_)
LStrip(s) ==
    IF s = << >> THEN << >>
    ELSE IF Head(s) \in Whitespace THEN LStrip(Tail(s)) ELSE s

RECURSIVE RStrip(_)
RStrip(s) ==
    IF s = << >> THEN << >>
    ELSE IF s[Len(s)] \in Whitespace THEN RStrip(SubSeq(s, 1, Len(s) - 1)) ELSE s

Strip(s) == RStrip(LStrip(s))

\* variant: the check without strip()
ContentIsEmptyNoStrip(content) == content = << >>

\* store_rag_data: `not request.content or len(request.content.strip()) == 0`
ContentIsEmpty(content) == content = << >> \/ Len(Strip(content)) = 0

\* variant: the check without strip()
QueryIsEmptyNoStrip(query) == query = << >>

\* retrieve_rag_data: `not request.query or len(request.query.strip()) == 0`
QueryIsEmpty(query) == query = << >> \/ Len(Strip(query)) = 0

\* variant: a tenant-wide namespace at store time
StoreNamespaceTenantWide(user_id, email_id) == "user_" \o user_id

\* variant: the two ids in the other order
StoreNamespaceSwapped(user_id, email_id) == "user_" \o email_id \o "_" \o user_id

\* store_documents: namespace = f"user_{user_id}_{email_id}"
StoreNamespace(user_id, email_id) == "user_" \o user_id \o "_" \o email_id

\* variant: a tenant-wide namespace at query time
QueryNamespaceTenantWide(userId, email) == "user_" \o userId

\* variant: the two ids in the other order
QueryNamespaceSwapped(userId, email) == "user_" \o email \o "_" \o userId

\* retrieve_rag_data: namespace = f"user_{request.userId}_{request.email}"
QueryNamespace(userId, email) == "user_" \o userId \o "_" \o email

\* search_documents: namespace = f"user_{user_id}"
SearchNamespace(user_id) == "user_" \o user_id

\* variant: the query is sent without a metadata filter
QueryFilterDropped(userId) == NoFilter

\* retrieve_rag_data: filter_metadata={"user_id": request.userId}
QueryFilter(userId) == [user_id |-> userId]

\* search_documents: filter_metadata, with email_id added when it is truthy
SearchFilter(user_id, email_id) ==
    IF email_id # "" THEN [user_id |-> user_id, email_id |-> email_id]
    ELSE [user_id |-> user_id]

\* the embedding model: a vector determined by the text
Embed(text) == [of |-> text]

\* embed_texts_while_storing: one vector per text, in order
EmbedTexts(texts) == [k \in 1..Len(texts) |-> Embed(texts[k])]

\* variant: chunks numbered from one
MakeDocumentOneBased(r, idx, n) ==
    [text |-> [content |-> r.content, chunk |-> idx, part |-> 0],
     metadata |-> [user_id |-> r.userId,
                   email_id |-> r.email,
                   title |-> r.title,
                   chunk_index |-> idx + 1,
                   total_chunks |-> n,
                   timestamp |-> "now",
                   source_type |-> "email"]]

\* store_rag_data: the Document built for chunk idx (0-based) of n chunks
MakeDocument(r, idx, n) ==
    [text |-> [content |-> r.content, chunk |-> idx, part |-> 0],
     metadata |-> [user_id |-> r.userId,
                   email_id |-> r.email,
                   title |-> r.title,
                   chunk_index |-> idx,
                   total_chunks |-> n,
                   timestamp |-> "now",
                   source_type |-> "email"]]

\* store_rag_data: nodes = [Document(...) for idx, chunk in enumerate(chunks)]
MakeDocuments(r, n) == [k \in 1..n |-> MakeDocument(r, k - 1, n)]

RECURSIVE SumSeq(_)
SumSeq(s) ==
    IF s = << >> THEN 0
    ELSE IF Len(s) = 1 THEN s[1]
    ELSE LET h == Len(s) \div 2
         IN  SumSeq(SubSeq(s, 1, h)) + SumSeq(SubSeq(s, h + 1, Len(s)))

\* the nodes made of one document: p nodes, each inheriting the document's
\* metadata, with fresh node ids from firstId on
NodesOfDocument(d, p, firstId) ==
    [j \in 1..p |->
        [node_id |-> firstId + j - 1,
         text |-> [d.text EXCEPT !.part = IF p = 1 THEN 0 ELSE j],
         metadata |-> d.metadata]]

\* splitter.get_nodes_from_documents: document k yields parts[k] >= 1 nodes,
\* in document order
RECURSIVE NodesFromDocuments(_, _, _)
NodesFromDocuments(docs, parts, firstId) ==
    IF docs = << >> THEN << >>
    ELSE IF Len(docs) = 1 THEN NodesOfDocument(docs[1], parts[1], firstId)
    ELSE LET h == Len(docs) \div 2
             n == Len(docs)
         IN  NodesFromDocuments(SubSeq(docs, 1, h), SubSeq(parts, 1, h), firstId)
             \o NodesFromDocuments(SubSeq(docs, h + 1, n), SubSeq(parts, h + 1, n),
                                   firstId + SumSeq(SubSeq(parts, 1, h)))

\* variant: node ids numbered from 1 in every ingestion
FreshIdRestart(idx) == 1

\* a node id no stored record has (a new node's uuid): one past the largest
FreshId(idx) ==
    LET used == {x.id : x \in idx} \cup {0}
    IN  1 + CHOOSE n \in used : \A m \in used : m <= n

\* variant: the node's total_chunks is not carried into the record
StoreMetadataNoTotal(node, user_id, email_id, title) ==
    [k \in (DOMAIN node.metadata) \ {"total_chunks"} |->
        IF k = "user_id" THEN user_id
        ELSE IF k = "email_id" THEN email_id
        ELSE IF k = "title" THEN title
        ELSE node.metadata[k]]
        @@ [text |-> node.text]

\* variant: the owner field is filled from the document id
StoreMetadataWrongOwner(node, user_id, email_id, title) ==
    [node.metadata EXCEPT !.user_id = email_id,
                          !.email_id = email_id,
                          !.title = title]
        @@ [text |-> node.text]

\* store_documents: the metadata written for one node
StoreMetadata(node, user_id, email_id, title) ==
    [node.metadata EXCEPT !.user_id = user_id,
                          !.email_id = email_id,
                          !.title = title]
        @@ [text |-> node.text]

Min(a, b) == IF a <= b THEN a ELSE b

\* store_documents: pinecone_vectors, one per (node, embedding) pair of zip
StoreVectors(ns, es, user_id, email_id, title) ==
    [k \in 1..Min(Len(ns), Len(es)) |->
        [id |-> ns[k].node_id,
         values |-> es[k],
         metadata |-> StoreMetadata(ns[k], user_id, email_id, title)]]

\* variant: the batch is written to the default namespace
UpsertDefaultNamespace(idx, batch, ns, r) ==
    LET ids == {batch[k].id : k \in 1..Len(batch)}
    IN  {x \in idx : ~(x.ns = "" /\ x.id \in ids)}
        \cup {[ns |-> "", id |-> batch[k].id, values |-> batch[k].values,
               metadata |-> batch[k].metadata,
               by_user |-> r.userId, by_email |-> r.email] :
              k \in 1..Len(batch)}

\* index.upsert(vectors=batch, namespace=ns): insert, or replace by id
\* within the namespace; by_user/by_email remember the ingesting request
Upsert(idx, batch, ns, r) ==
    LET ids == {batch[k].id : k \in 1..Len(batch)}
    IN  {x \in idx : ~(x.ns = ns /\ x.id \in ids)}
        \cup {[ns |-> ns, id |-> batch[k].id, values |-> batch[k].values,
               metadata |-> batch[k].metadata,
               by_user |-> r.userId, by_email |-> r.email] :
              k \in 1..Len(batch)}

\* a record passes a metadata filter when it equals it on every key
PassesFilter(x, filter) ==
    filter = NoFilter
    \/ \A key \in DOMAIN filter :
          key \in DOMAIN x.metadata /\ x.metadata[key] = filter[key]

\* the records index.query may return: in the namespace, passing the filter
Eligible(idx, ns, filter) ==
    {x \in idx : x.ns = ns /\ PassesFilter(x, filter)}

\* index.query: up to top_k eligible records, each once, with the scores
\* the store computes (any), in non-increasing score order
IndexQuery(idx, ns, filter, top_k) ==
    LET el == Eligible(idx, ns, filter)
        n == Min(top_k, Cardinality(el))
    IN  {s \in [1..n -> [id : {x.id : x \in el}, score : Scores]] :
            /\ \A a, b \in 1..n : a # b => s[a].id # s[b].id
            /\ \A a, b \in 1..n : a < b => s[a].score >= s[b].score}

RecordOf(idx, ns, id) == CHOOSE x \in idx : x.ns = ns /\ x.id = id

\* query_vectors: the formatted results (include_metadata=True)
QueryResults(idx, ns, raw) ==
    [k \in 1..Len(raw) |->
        [id |-> raw[k].id, score |-> raw[k].score,
         metadata |-> RecordOf(idx, ns, raw[k].id).metadata]]

\* retrieve_rag_data: context_chunks
ContextChunks(ms) ==
    [k \in 1..Len(ms) |->
        [score |-> ms[k].score,
         title |-> ms[k].metadata.title,
         text |-> ms[k].metadata.text,
         timestamp |-> ms[k].metadata.timestamp,
         email_id |-> ms[k].metadata.email_id,
         chunk_index |-> ms[k].metadata.chunk_index]]

\* variant: the mean cut off after the fourth decimal
AverageScoreTruncated(cs) ==
    SumSeq([k \in 1..Len(cs) |-> cs[k].score]) \div (10 * Len(cs))

\* retrieve_rag_data: round(sum(scores) / len(scores), 4); the scores are in
\* units of 1/100000, the result in units of 1/10000
AverageScore(cs) ==
    (2 * SumSeq([k \in 1..Len(cs) |-> cs[k].score]) + 10 * Len(cs))
        \div (20 * Len(cs))

\* dict.get(key, default)
Get(d, key, default) == IF key \in DOMAIN d THEN d[key] ELSE default

\* f"{score:.2%}": a score in units of 1/100000 as a percentage with two
\* decimals
Percent(score) ==
    LET hundredths == (score + 5) \div 10
    IN  [whole |-> hundredths \div 100, frac |-> hundredths % 100]

\* _build_context: the block of a chunk, numbered from 1
ContextBlock(number, chunk) ==
    [source |-> number,
     relevance |-> Percent(Get(chunk, "score", 0)),
     title |-> Get(chunk, "title", "Untitled"),
     timestamp |-> Get(chunk, "timestamp", ""),
     content |-> Get(chunk, "text", "")]

\* the fixed text _build_context returns for no chunks
NoContextFound == <<[literal |-> "No relevant context found."]>>

\* variant: the blocks in reverse order of the chunks
BuildContextReversed(chunks) ==
    IF chunks = << >> THEN NoContextFound
    ELSE [k \in 1..Len(chunks) |-> ContextBlock(k, chunks[Len(chunks) + 1 - k])]

\* variant: no chunks give the join of no blocks, the empty string
BuildContextNoSentinel(chunks) ==
    [k \in 1..Len(chunks) |-> ContextBlock(k, chunks[k])]

\* _build_context: the text as the sequence of the pieces that "\n\n" joins
BuildContext(chunks) ==
    IF chunks = << >> THEN NoContextFound
    ELSE [k \in 1..Len(chunks) |-> ContextBlock(k, chunks[k])]

\* variant: candidates of equal similarity come out in descending index order
FindMostSimilarTiesReversed(sims, top_k) ==
    LET n == Len(sims)
        Rank(a) == 1 + Cardinality({b \in 1..n :
                        sims[b] > sims[a] \/ (sims[b] = sims[a] /\ b > a)})
        sorted == [r \in 1..n |->
                      LET a == CHOOSE a \in 1..n : Rank(a) = r
                      IN  [index |-> a - 1, similarity |-> sims[a]]]
    IN  SubSeq(sorted, 1, Min(top_k, n))

\* find_most_similar: sims[a] is compute_similarity(query, candidate a);
\* list.sort(key=similarity, reverse=True) is stable, so candidates of equal
\* similarity keep their order; then the slice [:top_k]
FindMostSimilar(sims, top_k) ==
    LET n == Len(sims)
        Rank(a) == 1 + Cardinality({b \in 1..n :
                        sims[b] > sims[a] \/ (sims[b] = sims[a] /\ b < a)})
        sorted == [r \in 1..n |->
                      LET a == CHOOSE a \in 1..n : Rank(a) = r
                      IN  [index |-> a - 1, similarity |-> sims[a]]]
    IN  SubSeq(sorted, 1, Min(top_k, n))

\* variant: the handler's own prefix only, the cause dropped
StoreErrorNoCause(e) == [status |-> 500, detail |-> "Failed to store data"]

\* store_rag_data: HTTPException(500, f"Failed to store data: {str(e)}")
StoreError(e) == [status |-> 500, detail |-> "Failed to store data: " \o e]

\* retrieve_rag_data: HTTPException(500, f"Failed to retrieve data: {str(e)}")
QueryError(e) == [status |-> 500, detail |-> "Failed to retrieve data: " \o e]

NoInfoAnswer == "I couldn't find any relevant information in your documents to answer this question."

\* variant: no results answered as an error
NoResultsAsError == [status |-> 404, detail |-> NoInfoAnswer]

\* retrieve_rag_data: the response when pinecone_results is empty
NoResultsResponse == [status |-> 200, answer |-> NoInfoAnswer, score |-> 0]

(* ------------------------------- state -------------------------------- *)

InitReq ==
    /\ index = {}
    /\ pc = "idle"
    /\ req = NoReq
    /\ nodes = << >>
    /\ vectors = << >>
    /\ namespace = ""
    /\ i = 0
    /\ matches = << >>
    /\ context = << >>
    /\ resp = NoResp
    /\ calls = << >>
    /\ lastQuery = NoQuery
    /\ index0 = {}
    /\ raised = ""
    /\ llm_context = NoContext
    /\ similar = NoSimilar
    /\ upserts = [p \in Callers |-> IdleCaller]
    /\ upsertLog = << >>

\* the router module has been imported: it created the three services
Init ==
    /\ InitReq
    /\ instance = [s \in Services |-> [id |-> 1, arg |-> "default"]]
    /\ constructed = [s \in Services |-> 1]
    /\ threads = [t \in Threads |-> IdleThread]

(* --------------------------- POST /rag/store -------------------------- *)

\* store_rag_data up to the embedding call: validation, chunking, nodes;
\* parts[k] is the number of nodes made of chunk k
StoreStart(userId, email, title, content, parts) ==
    /\ pc = "idle"
    /\ LET r == [kind |-> "store", userId |-> userId, email |-> email,
                 title |-> title, content |-> content]
       IN  /\ req' = r
           /\ index0' = index
           /\ IF ContentIsEmpty(content)
              THEN /\ parts = << >>
                   /\ resp' = [status |-> 400, detail |-> "Content cannot be empty"]
                   /\ pc' = "done"
                   /\ UNCHANGED <<nodes, calls>>
              ELSE /\ Len(parts) >= 1
                   /\ nodes' = NodesFromDocuments(MakeDocuments(r, Len(parts)),
                                                  parts, FreshId(index))
                   /\ calls' = <<"split">>
                   /\ resp' = NoResp
                   /\ pc' = "s_embed"
    /\ UNCHANGED <<index, vectors, namespace, i, matches, context, lastQuery>>
    /\ UNCHANGED raised
    /\ UNCHANGED svcVars
    /\ UNCHANGED libVars

\* a store request of a short content: at most MaxChunks chunks, the index
\* kept within MaxRecords
StoreBegin(userId, email, title, content, parts) ==
    /\ pc = "idle"
    /\ Len(parts) <= MaxChunks
    /\ Cardinality(index) + SumSeq(parts) <= MaxRecords
    /\ StoreStart(userId, email, title, content, parts)

\* a store request of a long content: n chunks, one node each, more than
\* one upsert batch; the index kept within MaxBatches batches
StoreBeginLong(userId, email, title, content, n) ==
    /\ pc = "idle"
    /\ ~ContentIsEmpty(content)
    /\ Cardinality(index) + n <= MaxBatches * BatchSize
    /\ StoreStart(userId, email, title, content, [k \in 1..n |-> 1])

\* splitter.split_text or get_nodes_from_documents raises: 500
StoreSplitFail(userId, email, title, content, e) ==
    /\ pc = "idle"
    /\ ~ContentIsEmpty(content)
    /\ req' = [kind |-> "store", userId |-> userId, email |-> email,
               title |-> title, content |-> content]
    /\ index0' = index
    /\ calls' = <<"split">>
    /\ resp' = StoreError(e)
    /\ raised' = e
    /\ pc' = "done"
    /\ UNCHANGED <<index, nodes, vectors, namespace, i, matches, context,
                   lastQuery>>
    /\ UNCHANGED svcVars
    /\ UNCHANGED libVars

\* embedding_service.embed_texts_while_storing returns; store_documents
\* builds the namespace and the vectors and enters upsert_vectors
StoreEmbedOk ==
    /\ pc = "s_embed"
    /\ LET node_texts == [k \in 1..Len(nodes) |-> nodes[k].text]
           embeddings == EmbedTexts(node_texts)
       IN  vectors' = StoreVectors(nodes, embeddings, req.userId, req.email,
                                   req.title)
    /\ namespace' = StoreNamespace(req.userId, req.email)
    /\ calls' = Append(calls, "embed_many")
    /\ i' = 0
    /\ pc' = "s_upsert"
    /\ UNCHANGED <<index, req, nodes, matches, context, resp,
                   lastQuery, index0>>
    /\ UNCHANGED raised
    /\ UNCHANGED svcVars
    /\ UNCHANGED libVars

\* the embedding call raises: 500
StoreEmbedFail(e) ==
    /\ pc = "s_embed"
    /\ calls' = Append(calls, "embed_many")
    /\ resp' = StoreError(e)
    /\ raised' = e
    /\ pc' = "done"
    /\ UNCHANGED <<index, req, nodes, vectors, namespace, i, matches,
                   context, lastQuery, index0>>
    /\ UNCHANGED svcVars
    /\ UNCHANGED libVars

\* upsert_vectors: one batch is upserted; after the last one the handler
\* answers indexed=True
UpsertBatchOk ==
    /\ pc = "s_upsert"
    /\ i < Len(vectors)
    /\ LET batch == SubSeq(vectors, i + 1, Min(i + BatchSize, Len(vectors)))
       IN  index' = Upsert(index, batch, namespace, req)
    /\ calls' = Append(calls, "upsert")
    /\ i' = i + BatchSize
    /\ IF i + BatchSize >= Len(vectors)
       THEN /\ resp' = [status |-> 200, documentId |-> req.email, indexed |-> TRUE]
            /\ pc' = "done"
       ELSE UNCHANGED <<resp, pc>>
    /\ UNCHANGED <<req, nodes, vectors, namespace, matches, context,
                   lastQuery, index0>>
    /\ UNCHANGED raised
    /\ UNCHANGED svcVars
    /\ UNCHANGED libVars

\* variant: the failed batch is logged and the loop goes on
UpsertBatchFailSwallowed(e) ==
    /\ pc = "s_upsert"
    /\ i < Len(vectors)
    /\ calls' = Append(calls, "upsert")
    /\ raised' = e
    /\ i' = i + BatchSize
    /\ IF i + BatchSize >= Len(vectors)
       THEN /\ resp' = [status |-> 200, documentId |-> req.email, indexed |-> TRUE]
            /\ pc' = "done"
       ELSE UNCHANGED <<resp, pc>>
    /\ UNCHANGED <<index, req, nodes, vectors, namespace, matches,
                   context, lastQuery, index0>>
    /\ UNCHANGED svcVars
    /\ UNCHANGED libVars

\* index.upsert raises: the remaining batches are skipped, 500
UpsertBatchFail(e) ==
    /\ pc = "s_upsert"
    /\ i < Len(vectors)
    /\ calls' = Append(calls, "upsert")
    /\ resp' = StoreError(e)
    /\ raised' = e
    /\ pc' = "done"
    /\ UNCHANGED <<index, req, nodes, vectors, namespace, i, matches,
                   context, lastQuery, index0>>
    /\ UNCHANGED svcVars
    /\ UNCHANGED libVars

(* --------------------------- POST /rag/query -------------------------- *)

\* retrieve_rag_data up to the embedding call: validation
QueryBegin(userId, email, query, topK) ==
    /\ pc = "idle"
    /\ req' = [kind |-> "query", userId |-> userId, email |-> email,
               query |-> query, topK |-> topK]
    /\ index0' = index
    /\ IF QueryIsEmpty(query)
       THEN /\ resp' = [status |-> 400, detail |-> "Query cannot be empty"]
            /\ pc' = "done"
       ELSE /\ resp' = NoResp
            /\ pc' = "q_embed"
    /\ UNCHANGED <<index, nodes, vectors, namespace, i, matches,
                   context, calls, lastQuery>>
    /\ UNCHANGED raised
    /\ UNCHANGED svcVars
    /\ UNCHANGED libVars

\* variant: a failed embedding call is attempted a second time
QueryEmbedFailRetry(e) ==
    /\ pc = "q_embed"
    /\ calls' = calls \o <<"embed_one", "embed_one">>
    /\ resp' = QueryError(e)
    /\ raised' = e
    /\ pc' = "done"
    /\ UNCHANGED <<index, req, nodes, vectors, namespace, i, matches,
                   context, lastQuery, index0>>
    /\ UNCHANGED svcVars
    /\ UNCHANGED libVars

\* embed_text_while_searching returns; the namespace is derived
QueryEmbedOk ==
    /\ pc = "q_embed"
    /\ calls' = Append(calls, "embed_one")
    /\ namespace' = QueryNamespace(req.userId, req.email)
    /\ pc' = "q_search"
    /\ UNCHANGED <<index, req, nodes, vectors, i, matches, context,
                   resp, lastQuery, index0>>
    /\ UNCHANGED raised
    /\ UNCHANGED svcVars
    /\ UNCHANGED libVars

QueryEmbedFail(e) ==
    /\ pc = "q_embed"
    /\ calls' = Append(calls, "embed_one")
    /\ resp' = QueryError(e)
    /\ raised' = e
    /\ pc' = "done"
    /\ UNCHANGED <<index, req, nodes, vectors, namespace, i, matches,
                   context, lastQuery, index0>>
    /\ UNCHANGED svcVars
    /\ UNCHANGED libVars

\* query_vectors returns; no results give the canned answer, otherwise the
\* context chunks are built for the LLM
QuerySearchOk ==
    /\ pc = "q_search"
    /\ LET filter == QueryFilter(req.userId) IN
       /\ lastQuery' = [made |-> TRUE, namespace |-> namespace,
                        filter |-> filter, top_k |-> req.topK,
                        returned |-> TRUE]
       /\ \E raw \in IndexQuery(index, namespace, filter, req.topK) :
             LET results == QueryResults(index, namespace, raw) IN
             /\ matches' = results
             /\ IF results = << >>
                THEN /\ resp' = NoResultsResponse
                     /\ context' = context
                     /\ pc' = "done"
                ELSE /\ context' = ContextChunks(results)
                     /\ resp' = resp
                     /\ pc' = "q_generate"
    /\ calls' = Append(calls, "query")
    /\ UNCHANGED <<index, req, nodes, vectors, namespace, i, index0>>
    /\ UNCHANGED raised
    /\ UNCHANGED svcVars
    /\ UNCHANGED libVars

QuerySearchFail(e) ==
    /\ pc = "q_search"
    /\ lastQuery' = [made |-> TRUE, namespace |-> namespace,
                     filter |-> QueryFilter(req.userId), top_k |-> req.topK,
                     returned |-> FALSE]
    /\ calls' = Append(calls, "query")
    /\ resp' = QueryError(e)
    /\ raised' = e
    /\ pc' = "done"
    /\ UNCHANGED <<index, req, nodes, vectors, namespace, i, matches,
                   context, index0>>
    /\ UNCHANGED svcVars
    /\ UNCHANGED libVars

\* variant: the records used for the answer are deleted from the store
QueryGenerateOkConsuming ==
    /\ pc = "q_generate"
    /\ calls' = Append(calls, "generate")
    /\ resp' = [status |-> 200, answer |-> "llm_answer",
                score |-> AverageScore(context)]
    /\ index' = {x \in index :
                    ~(x.ns = namespace
                      /\ \E k \in 1..Len(matches) : matches[k].id = x.id)}
    /\ pc' = "done"
    /\ UNCHANGED <<req, nodes, vectors, namespace, i, matches,
                   context, lastQuery, index0>>
    /\ UNCHANGED raised
    /\ UNCHANGED svcVars
    /\ llm_context' = [built |-> TRUE, chunks |-> context,
                        text |-> BuildContext(context)]
    /\ UNCHANGED <<similar, upserts, upsertLog>>

\* llm_service.generate_response returns; the average score is computed
QueryGenerateOk ==
    /\ pc = "q_generate"
    /\ calls' = Append(calls, "generate")
    /\ resp' = [status |-> 200, answer |-> "llm_answer",
                score |-> AverageScore(context)]
    /\ pc' = "done"
    /\ UNCHANGED <<index, req, nodes, vectors, namespace, i, matches,
                   context, lastQuery, index0>>
    /\ UNCHANGED raised
    /\ UNCHANGED svcVars
    /\ llm_context' = [built |-> TRUE, chunks |-> context,
                        text |-> BuildContext(context)]
    /\ UNCHANGED <<similar, upserts, upsertLog>>

QueryGenerateFail(e) ==
    /\ pc = "q_generate"
    /\ calls' = Append(calls, "generate")
    /\ resp' = QueryError(e)
    /\ raised' = e
    /\ pc' = "done"
    /\ UNCHANGED <<index, req, nodes, vectors, namespace, i, matches,
                   context, lastQuery, index0>>
    /\ UNCHANGED svcVars
    /\ llm_context' = [built |-> TRUE, chunks |-> context,
                        text |-> BuildContext(context)]
    /\ UNCHANGED <<similar, upserts, upsertLog>>

(* ------------------ PineconeService.search_documents ------------------ *)

\* search_documents(query_vector, user_id, top_k, email_id), called on the
\* service outside the two handlers
SearchDocuments(user_id, email_id, top_k) ==
    /\ pc = "idle"
    /\ req' = [kind |-> "search", userId |-> user_id, email |-> email_id,
               topK |-> top_k]
    /\ index0' = index
    /\ LET ns == SearchNamespace(user_id)
           filter == SearchFilter(user_id, email_id)
       IN  /\ namespace' = ns
           /\ lastQuery' = [made |-> TRUE, namespace |-> ns, filter |-> filter,
                            top_k |-> top_k, returned |-> TRUE]
           /\ \E raw \in IndexQuery(index, ns, filter, top_k) :
                 matches' = QueryResults(index, ns, raw)
    /\ calls' = <<"query">>
    /\ resp' = [status |-> 200]
    /\ pc' = "done"
    /\ UNCHANGED <<index, nodes, vectors, i, context>>
    /\ UNCHANGED raised
    /\ UNCHANGED svcVars
    /\ UNCHANGED libVars

(* ------------------------------ lifecycle ----------------------------- *)

\* the response is sent; the handler's locals go away
Finish ==
    /\ pc = "done"
    /\ pc' = "idle"
    /\ req' = NoReq
    /\ nodes' = << >>
    /\ vectors' = << >>
    /\ namespace' = ""
    /\ i' = 0
    /\ matches' = << >>
    /\ context' = << >>
    /\ resp' = NoResp
    /\ calls' = << >>
    /\ lastQuery' = NoQuery
    /\ index0' = index
    /\ raised' = ""
    /\ UNCHANGED index
    /\ UNCHANGED svcVars
    /\ llm_context' = NoContext
    /\ UNCHANGED <<similar, upserts, upsertLog>>

\* the lists of node counts get_nodes_from_documents may produce
PartsChoices ==
    {<< >>} \cup UNION {[1..n -> 1..MaxSplit] : n \in 1..MaxChunks}

Next ==
    \/ \E u \in UserIds, e \in Emails, t \in Titles, c \in Contents,
          parts \in PartsChoices : StoreBegin(u, e, t, c, parts)
    \/ \E u \in UserIds, d \in Emails, t \in Titles, c \in Contents,
          e \in Causes : StoreSplitFail(u, d, t, c, e)
    \/ StoreEmbedOk
    \/ \E e \in Causes : StoreEmbedFail(e)
    \/ UpsertBatchOk
    \/ \E e \in Causes : UpsertBatchFail(e)
    \/ \E u \in UserIds, e \in Emails, q \in Queries, k \in TopKs :
          QueryBegin(u, e, q, k)
    \/ QueryEmbedOk
    \/ \E e \in Causes : QueryEmbedFail(e)
    \/ QuerySearchOk
    \/ \E e \in Causes : QuerySearchFail(e)
    \/ QueryGenerateOk
    \/ \E e \in Causes : QueryGenerateFail(e)
    \/ \E u \in UserIds, e \in Emails, k \in TopKs : SearchDocuments(u, e, k)
    \/ Finish

Spec == Init /\ [][Next]_vars

(* ---------------- get_embedding/pinecone/llm_service ------------------ *)

\* thread t calls get_<s>_service(arg)
GetCall(t, s, arg) ==
    /\ threads[t].pc \in {"idle", "returned"}
    /\ threads' = [threads EXCEPT ![t] = [pc |-> "check", svc |-> s, arg |-> arg]]
    /\ UNCHANGED <<instance, constructed>>
    /\ UNCHANGED reqVars
    /\ UNCHANGED libVars

\* variant: an instance made with another argument is not reused
GetCheckArg(t) ==
    /\ threads[t].pc = "check"
    /\ threads' = [threads EXCEPT ![t].pc =
                      IF \/ instance[threads[t].svc] = NoInstance
                         \/ instance[threads[t].svc].arg # threads[t].arg
                      THEN "create" ELSE "return"]
    /\ UNCHANGED <<instance, constructed>>
    /\ UNCHANGED reqVars
    /\ UNCHANGED libVars

\* `if _<s>_service_instance is None:`
GetCheck(t) ==
    /\ threads[t].pc = "check"
    /\ threads' = [threads EXCEPT ![t].pc =
                      IF instance[threads[t].svc] = NoInstance
                      THEN "create" ELSE "return"]
    /\ UNCHANGED <<instance, constructed>>
    /\ UNCHANGED reqVars
    /\ UNCHANGED libVars

\* `_<s>_service_instance = <S>Service(arg)`: the constructor returns and
\* the global is assigned
GetCreate(t) ==
    /\ threads[t].pc = "create"
    /\ LET s == threads[t].svc IN
       /\ constructed' = [constructed EXCEPT ![s] = @ + 1]
       /\ instance' = [instance EXCEPT ![s] =
                          [id |-> constructed[s] + 1, arg |-> threads[t].arg]]
    /\ threads' = [threads EXCEPT ![t].pc = "return"]
    /\ UNCHANGED reqVars
    /\ UNCHANGED libVars

\* the constructor raises: the call ends with the exception
GetCreateFail(t) ==
    /\ threads[t].pc = "create"
    /\ threads' = [threads EXCEPT ![t] = IdleThread]
    /\ UNCHANGED <<instance, constructed>>
    /\ UNCHANGED reqVars
    /\ UNCHANGED libVars

\* `return _<s>_service_instance`
GetReturn(t) ==
    /\ threads[t].pc = "return"
    /\ threads' = [threads EXCEPT ![t] =
                      [pc |-> "returned", svc |-> threads[t].svc,
                       arg |-> threads[t].arg,
                       got |-> instance[threads[t].svc]]]
    /\ UNCHANGED <<instance, constructed>>
    /\ UNCHANGED reqVars
    /\ UNCHANGED libVars

\* a process that has imported the services but created none yet
InitSingleton ==
    /\ InitReq
    /\ instance = [s \in Services |-> NoInstance]
    /\ constructed = [s \in Services |-> 0]
    /\ threads = [t \in Threads |-> IdleThread]

NextSingleton ==
    \/ \E t \in Threads, s \in Services, arg \in ServiceArgs : GetCall(t, s, arg)
    \/ \E t \in Threads : GetCheck(t)
    \/ \E t \in Threads : GetCreate(t)
    \/ \E t \in Threads : GetCreateFail(t)
    \/ \E t \in Threads : GetReturn(t)

SpecSingleton == InitSingleton /\ [][NextSingleton]_vars

\* sequential execution: a call begins only when no other call is running
GetCallSequential(t, s, arg) ==
    /\ \A u \in Threads \ {t} : threads[u].pc \in {"idle", "returned"}
    /\ GetCall(t, s, arg)

NextSequential ==
    \/ \E t \in Threads, s \in Services, arg \in ServiceArgs :
          GetCallSequential(t, s, arg)
    \/ \E t \in Threads : GetCheck(t)
    \/ \E t \in Threads : GetCreate(t)
    \/ \E t \in Threads : GetCreateFail(t)
    \/ \E t \in Threads : GetReturn(t)

SpecSequential == InitSingleton /\ [][NextSequential]_vars

(* ------------- direct calls of the services' pure functions ----------- *)

\* llm_service._build_context(chunks), called once
BuildContextCall(chunks) ==
    /\ ~llm_context.built
    /\ llm_context' = [built |-> TRUE, chunks |-> chunks,
                        text |-> BuildContext(chunks)]
    /\ UNCHANGED <<similar, upserts, upsertLog>>
    /\ UNCHANGED reqVars
    /\ UNCHANGED svcVars

\* embedding_service.find_most_similar(query, candidates, top_k), called
\* once
FindMostSimilarCall(sims, top_k) ==
    /\ ~similar.made
    /\ similar' = [made |-> TRUE, sims |-> sims, top_k |-> top_k,
                    result |-> FindMostSimilar(sims, top_k)]
    /\ UNCHANGED <<llm_context, upserts, upsertLog>>
    /\ UNCHANGED reqVars
    /\ UNCHANGED svcVars

NextFunctions ==
    \/ \E chunks \in ChunkLists : BuildContextCall(chunks)
    \/ \E sims \in SimLists, top_k \in 0..MaxSimilarK :
          FindMostSimilarCall(sims, top_k)

SpecFunctions == Init /\ [][NextFunctions]_vars

(* ------------ concurrent upsert_vectors and store_documents ----------- *)

\* the vectors caller p hands to upsert_vectors directly: ids 1..n
DirectVectors(p, n) ==
    [k \in 1..n |->
        [id |-> k,
         values |-> Embed([caller |-> p, item |-> k]),
         metadata |-> [text |-> [caller |-> p, item |-> k]]]]

\* who made a direct call, in the place of the ingesting request
DirectCaller(p) == [userId |-> "direct", email |-> IF p = 1 THEN "1" ELSE "2"]

\* a node id that neither the index nor a running call uses
FreshCallId ==
    LET used == {x.id : x \in index} \cup {0}
                \cup UNION {{upserts[q].vectors[k].id :
                                k \in 1..Len(upserts[q].vectors)} :
                            q \in {c \in Callers : upserts[c].pc # "idle"}}
    IN  1 + CHOOSE n \in used : \A m \in used : m <= n

\* caller p enters upsert_vectors(vectors, namespace, batch_size)
EnterUpsertVectors(p, vs, ns, b, r) ==
    /\ upserts[p].pc = "idle"
    /\ upserts' = [upserts EXCEPT ![p] =
                      [pc |-> "loop", vectors |-> vs, namespace |-> ns,
                       batch_size |-> b, i |-> 0, total_upserted |-> 0,
                       r |-> r]]
    /\ UNCHANGED <<llm_context, similar, upsertLog>>
    /\ UNCHANGED reqVars
    /\ UNCHANGED svcVars

\* a direct call upsert_vectors(vectors, namespace, batch_size)
UpsertVectorsCall(p, n, ns, b) ==
    EnterUpsertVectors(p, DirectVectors(p, n), ns, b, DirectCaller(p))

\* store_documents(nodes, embeddings, user_id, email_id, title) for a
\* content of n chunks: it calls upsert_vectors with batch_size=100
StoreDocumentsCall(p, user_id, email_id, title, content, n) ==
    LET r == [kind |-> "store", userId |-> user_id, email |-> email_id,
              title |-> title, content |-> content]
        ns == NodesFromDocuments(MakeDocuments(r, n), [k \in 1..n |-> 1],
                                 FreshCallId)
        es == EmbedTexts([k \in 1..Len(ns) |-> ns[k].text])
    IN  EnterUpsertVectors(p, StoreVectors(ns, es, user_id, email_id, title),
                           StoreNamespace(user_id, email_id), BatchSize, r)

\* variant: the slice of a batch ends one record early
UpsertVectorsBatchShort(p) ==
    /\ upserts[p].pc = "loop"
    /\ upserts[p].i < Len(upserts[p].vectors)
    /\ LET c == upserts[p]
           batch == SubSeq(c.vectors, c.i + 1,
                           Min(c.i + c.batch_size - 1, Len(c.vectors)))
       IN  /\ index' = Upsert(index, batch, c.namespace, c.r)
           /\ upsertLog' = Append(upsertLog,
                                  [caller |-> p, namespace |-> c.namespace,
                                   batch |-> batch])
           /\ upserts' = [upserts EXCEPT
                             ![p].i = c.i + c.batch_size,
                             ![p].total_upserted = c.total_upserted + Len(batch)]
    /\ UNCHANGED <<pc, req, nodes, vectors, namespace, i, matches, context,
                   resp, calls, lastQuery, index0, raised>>
    /\ UNCHANGED <<llm_context, similar>>
    /\ UNCHANGED svcVars

\* variant: the write keeps the records of the batch's namespace only
UpsertVectorsBatchAlone(p) ==
    /\ upserts[p].pc = "loop"
    /\ upserts[p].i < Len(upserts[p].vectors)
    /\ LET c == upserts[p]
           batch == SubSeq(c.vectors, c.i + 1,
                           Min(c.i + c.batch_size, Len(c.vectors)))
       IN  /\ index' = Upsert({x \in index : x.ns = c.namespace}, batch,
                              c.namespace, c.r)
           /\ upsertLog' = Append(upsertLog,
                                  [caller |-> p, namespace |-> c.namespace,
                                   batch |-> batch])
           /\ upserts' = [upserts EXCEPT
                             ![p].i = c.i + c.batch_size,
                             ![p].total_upserted = c.total_upserted + Len(batch)]
    /\ UNCHANGED <<pc, req, nodes, vectors, namespace, i, matches, context,
                   resp, calls, lastQuery, index0, raised>>
    /\ UNCHANGED <<llm_context, similar>>
    /\ UNCHANGED svcVars

\* one round of the loop of upsert_vectors: index.upsert(batch, namespace)
UpsertVectorsBatch(p) ==
    /\ upserts[p].pc = "loop"
    /\ upserts[p].i < Len(upserts[p].vectors)
    /\ LET c == upserts[p]
           batch == SubSeq(c.vectors, c.i + 1,
                           Min(c.i + c.batch_size, Len(c.vectors)))
       IN  /\ index' = Upsert(index, batch, c.namespace, c.r)
           /\ upsertLog' = Append(upsertLog,
                                  [caller |-> p, namespace |-> c.namespace,
                                   batch |-> batch])
           /\ upserts' = [upserts EXCEPT
                             ![p].i = c.i + c.batch_size,
                             ![p].total_upserted = c.total_upserted + Len(batch)]
    /\ UNCHANGED <<pc, req, nodes, vectors, namespace, i, matches, context,
                   resp, calls, lastQuery, index0, raised>>
    /\ UNCHANGED <<llm_context, similar>>
    /\ UNCHANGED svcVars

\* index.upsert raises: upsert_vectors re-raises, the call ends
UpsertVectorsFail(p) ==
    /\ upserts[p].pc = "loop"
    /\ upserts[p].i < Len(upserts[p].vectors)
    /\ upserts' = [upserts EXCEPT ![p].pc = "failed"]
    /\ UNCHANGED <<llm_context, similar, upsertLog>>
    /\ UNCHANGED reqVars
    /\ UNCHANGED svcVars

\* the loop is through: return {"upserted_count": ..., "namespace": ...}
UpsertVectorsReturn(p) ==
    /\ upserts[p].pc = "loop"
    /\ upserts[p].i >= Len(upserts[p].vectors)
    /\ upserts' = [upserts EXCEPT ![p] =
                      [pc |-> "returned"] @@ upserts[p] @@
                      [result |->
                          [upserted_count |-> upserts[p].total_upserted,
                           namespace |-> IF upserts[p].namespace = ""
                                         THEN "default"
                                         ELSE upserts[p].namespace]]]
    /\ UNCHANGED <<llm_context, similar, upsertLog>>
    /\ UNCHANGED reqVars
    /\ UNCHANGED svcVars

NextUpsert ==
    \/ \E p \in Callers, n \in 0..MaxVectors, ns \in DirectNamespaces,
           b \in 1..MaxBatchSize : UpsertVectorsCall(p, n, ns, b)
    \/ \E p \in Callers : UpsertVectorsBatch(p)
    \/ \E p \in Callers : UpsertVectorsFail(p)
    \/ \E p \in Callers : UpsertVectorsReturn(p)

SpecUpsert == Init /\ [][NextUpsert]_vars

\* two concurrent ingestions, each of a content of two batches
NextIngest ==
    \/ \E p \in Callers, u \in {"a", "a_b"}, d \in {"c", "b_c"}, t \in Titles :
          StoreDocumentsCall(p, u, d, t, <<" ", "x">>, BatchSize + 1)
    \/ \E p \in Callers : UpsertVectorsBatch(p)
    \/ \E p \in Callers : UpsertVectorsFail(p)
    \/ \E p \in Callers : UpsertVectorsReturn(p)

SpecIngest == Init /\ [][NextIngest]_vars

(* ------------- ingestion of contents of more than one batch ----------- *)

\* chunk counts that need 2..MaxBatches upsert batches
LongCounts == {b * BatchSize + 1 : b \in 1..(MaxBatches - 1)}
\* the tenants and documents of the long contents
LongUserIds == {"a", "a_b"}
LongEmails == {"c", "b_c"}

NextBatch ==
    \/ \E u \in LongUserIds, d \in LongEmails, t \in Titles, c \in Contents,
          n \in LongCounts : StoreBeginLong(u, d, t, c, n)
    \/ StoreEmbedOk
    \/ \E e \in Causes : StoreEmbedFail(e)
    \/ UpsertBatchOk
    \/ \E e \in Causes : UpsertBatchFail(e)
    \/ Finish

SpecBatch == Init /\ [][NextBatch]_vars

(* ------------------------------ properties ---------------------------- *)

\* every character is whitespace (the empty text included)
AllWhitespace(s) == \A k \in 1..Len(s) : s[k] \in Whitespace

\* the records the request (userId, email) ingested
IngestedBy(idx, userId, email) ==
    {x \in idx : x.by_user = userId /\ x.by_email = email}

\* the store answered the current query request
SearchReturned ==
    pc = "q_generate" \/ (pc = "done" /\ "query" \in {calls[k] : k \in 1..Len(calls)}
                           /\ resp.status = 200)

\* C1: a query with userId = B never receives, as a match or as LLM context,
\* a record ingested by a store request with another userId, whatever the
\* scores; and when no record of B is stored, a query by B that is answered
\* has zero matches, the canned no-information answer and no LLM call.
C1_TenantIsolation ==
    req.kind = "query" =>
        /\ \A k \in 1..Len(matches) :
              \E x \in index : x.id = matches[k].id /\ x.by_user = req.userId
        /\ Len(context) <= Len(matches)
        /\ \A k \in 1..Len(context) :
              \E x \in index : /\ x.id = matches[k].id
                               /\ x.by_user = req.userId
                               /\ x.metadata.text = context[k].text
        /\ (SearchReturned /\ \A x \in index : x.by_user # req.userId) =>
              /\ matches = << >>
              /\ pc = "done"
              /\ resp.answer = NoInfoAnswer
              /\ resp.score = 0
              /\ calls = <<"embed_one", "query">>

\* C1 witness: a query was answered with the canned answer although another
\* tenant's record lies in the very namespace it searched
C1_Witness ==
    /\ pc = "done"
    /\ req.kind = "query"
    /\ resp.status = 200
    /\ resp.answer = NoInfoAnswer
    /\ \E x \in index : x.ns = lastQuery.namespace /\ x.by_user # req.userId

\* C2: every index query of the /rag/query handler carries the namespace
\* built from the request's userId and email and the metadata filter
\* user_id = request userId; neither is missing or empty.
C2_BothLayersOnEveryQuery ==
    req.kind = "query" =>
        /\ lastQuery.made <=> "query" \in {calls[k] : k \in 1..Len(calls)}
        /\ lastQuery.made =>
              /\ lastQuery.namespace # ""
              /\ lastQuery.namespace = "user_" \o req.userId \o "_" \o req.email
              /\ lastQuery.filter # NoFilter
              /\ DOMAIN lastQuery.filter = {"user_id"}
              /\ lastQuery.filter.user_id = req.userId

\* C2 witness: the handler queried the store for a tenant with stored records
C2_Witness ==
    /\ req.kind = "query"
    /\ lastQuery.made
    /\ matches # << >>
    /\ \E x \in index : x.by_user # req.userId

\* C3: the namespace alone isolates tenants: no record ingested by another
\* tenant lies in the namespace a query searches.
C3_NamespaceAloneIsolates ==
    (req.kind = "query" /\ lastQuery.made) =>
        \A x \in index : x.ns = lastQuery.namespace => x.by_user = req.userId

\* C4: the metadata filter alone isolates tenants: whatever its namespace,
\* a record that passes the filter of a query was ingested by the querying
\* tenant.
C4_FilterAloneIsolates ==
    (req.kind = "query" /\ lastQuery.made) =>
        \A x \in index : PassesFilter(x, lastQuery.filter) => x.by_user = req.userId

\* C4 witness: a query whose filter lets through a record of another
\* namespace, with a record of another tenant stored as well
C4_Witness ==
    /\ req.kind = "query"
    /\ lastQuery.made
    /\ \E x \in index : x.ns # lastQuery.namespace /\ PassesFilter(x, lastQuery.filter)
    /\ \E x \in index : x.by_user # req.userId

\* C5: every stored record's metadata user_id is the tenant id its namespace
\* was derived from (the user_id passed to store_documents replaces the one
\* the node already carried).
C5_OwnerMatchesNamespace ==
    /\ \A x \in index :
          /\ x.metadata.user_id = x.by_user
          /\ x.ns = "user_" \o x.metadata.user_id \o "_" \o x.by_email
    /\ pc = "s_upsert" =>
          \A k \in 1..Len(vectors) :
              /\ "user_id" \in DOMAIN nodes[k].metadata
              /\ vectors[k].metadata.user_id = req.userId
              /\ namespace = "user_" \o vectors[k].metadata.user_id \o "_" \o req.email

\* C5 witness: two tenants have ingested
C5_Witness ==
    /\ pc = "done"
    /\ req.kind = "store"
    /\ resp.status = 200
    /\ \E x, y \in index : x.by_user # y.by_user

C7_StoredVisibleToQuery ==
    (req.kind = "query" /\ lastQuery.made) =>
        /\ IngestedBy(index, req.userId, req.email)
              \subseteq Eligible(index, lastQuery.namespace, lastQuery.filter)
        /\ (SearchReturned /\ IngestedBy(index, req.userId, req.email) # {}) =>
              /\ matches # << >>
              /\ \A k \in 1..Len(matches) :
                    matches[k].id \in
                        {x.id : x \in IngestedBy(index, req.userId, req.email)}

\* C7 witness: after a store under (o, d) a query under (o, d) got matches
C7_Witness ==
    /\ req.kind = "query"
    /\ SearchReturned
    /\ matches # << >>
    /\ IngestedBy(index, req.userId, req.email) # {}

\* C8: search_documents(user_id, email_id) searches the namespace that
\* store_documents(user_id, email_id) writes to, and finds what was stored.
C8_SearchFindsStored ==
    (req.kind = "search" /\ pc = "done") =>
        /\ lastQuery.namespace = StoreNamespace(req.userId, req.email)
        /\ IngestedBy(index, req.userId, req.email) # {} => matches # << >>

\* C9: a store request with empty or whitespace-only content ends with 400
\* before any chunking, embedding or store call, the index unchanged.
C9_EmptyContentRejected ==
    (req.kind = "store" /\ AllWhitespace(req.content)) =>
        /\ pc = "done"
        /\ resp.status = 400
        /\ calls = << >>
        /\ nodes = << >>
        /\ vectors = << >>
        /\ index = index0

\* C9 witness: whitespace-only content was rejected while records are stored
C9_Witness ==
    /\ pc = "done"
    /\ req.kind = "store"
    /\ req.content # << >>
    /\ AllWhitespace(req.content)
    /\ resp.status = 400
    /\ index # {}

\* C10: a query request with an empty or whitespace-only query ends with 400
\* before any embedding, store or generation call.
C10_EmptyQueryRejected ==
    (req.kind = "query" /\ AllWhitespace(req.query)) =>
        /\ pc = "done"
        /\ resp.status = 400
        /\ calls = << >>
        /\ ~lastQuery.made
        /\ matches = << >>
        /\ context = << >>
        /\ index = index0

\* C10 witness: a whitespace-only query was rejected while records are stored
C10_Witness ==
    /\ pc = "done"
    /\ req.kind = "query"
    /\ req.query # << >>
    /\ AllWhitespace(req.query)
    /\ resp.status = 400
    /\ index # {}

\* C11: a store or query request whose userId or email is empty is rejected
\* with a client error and never upserts into or queries a namespace built
\* from an empty component.
C11_EmptyIdRejected ==
    /\ \A x \in index : x.by_user # "" /\ x.by_email # ""
    /\ (req.kind \in {"store", "query"} /\ (req.userId = "" \/ req.email = "")) =>
          /\ ~lastQuery.made
          /\ index = index0
          /\ (pc = "done" /\ raised = "") => resp.status = 400

\* C12: when the store returns zero matches (also for a namespace never
\* written), /rag/query answers 200 with the canned no-information answer
\* and score 0.0, and the answer generator is not called.
C12_ZeroMatchesCanned ==
    (req.kind = "query" /\ lastQuery.made /\ lastQuery.returned
        /\ matches = << >>) =>
        /\ pc = "done"
        /\ resp.status = 200
        /\ resp.answer = NoInfoAnswer
        /\ resp.score = 0
        /\ raised = ""
        /\ context = << >>
        /\ calls = <<"embed_one", "query">>

\* C12 witness: a query of a namespace no stored record lies in was answered
C12_Witness ==
    /\ pc = "done"
    /\ req.kind = "query"
    /\ lastQuery.made
    /\ lastQuery.returned
    /\ matches = << >>
    /\ index # {}
    /\ \A x \in index : x.ns # lastQuery.namespace

\* the upsert calls made so far in the current request
UpsertCalls == Cardinality({k \in 1..Len(calls) : calls[k] = "upsert"})

\* an upsert call of the current request raised
UpsertFailed ==
    /\ req.kind = "store"
    /\ raised # ""
    /\ calls # << >>
    /\ calls[Len(calls)] = "upsert"

\* C13: when the upsert of batch k fails, no later batch is sent, the
\* batches before k stay in the index and the request ends with 500, not
\* with indexed=true.
C13_BatchFailureAborts ==
    UpsertFailed =>
        /\ pc = "done"
        /\ resp.status = 500
        /\ "indexed" \notin DOMAIN resp
        /\ i < Len(vectors)
        /\ i = (UpsertCalls - 1) * BatchSize
        /\ index0 \subseteq index
        /\ \A j \in 1..Len(vectors) :
              (j <= i) <=> (\E x \in index : x.ns = namespace /\ x.id = vectors[j].id)

\* C13 witness: the second of three batches failed
C13_Witness ==
    /\ UpsertFailed
    /\ pc = "done"
    /\ i = BatchSize
    /\ Len(vectors) > 2 * BatchSize

\* C14: however the first calls of get_embedding_service,
\* get_pinecone_service and get_llm_service interleave, at most one instance
\* of each service is ever constructed.
C14_AtMostOneInstance ==
    \A s \in Services : constructed[s] <= 1

\* C15: a failure of chunking, embedding, storage or generation during a
\* store or query request ends the request with status 500 and a detail
\* that carries the message of the cause; the 400 of the validation is
\* answered as raised, never wrapped into a 500; a 500 is answered only
\* after a failure.
C15_FailureIs500WithCause ==
    /\ (req.kind = "store" /\ raised # "") =>
          /\ pc = "done"
          /\ resp = [status |-> 500,
                     detail |-> "Failed to store data: " \o raised]
    /\ (req.kind = "query" /\ raised # "") =>
          /\ pc = "done"
          /\ resp = [status |-> 500,
                     detail |-> "Failed to retrieve data: " \o raised]
    /\ (pc = "done" /\ req.kind = "store" /\ ContentIsEmpty(req.content)) =>
          /\ resp = [status |-> 400, detail |-> "Content cannot be empty"]
          /\ raised = ""
    /\ (pc = "done" /\ req.kind = "query" /\ QueryIsEmpty(req.query)) =>
          /\ resp = [status |-> 400, detail |-> "Query cannot be empty"]
          /\ raised = ""
    /\ (req.kind \in {"store", "query"} /\ resp.status = 500) => raised # ""

\* a store request whose second step, the embedding, failed
C15_Witness ==
    /\ pc = "done"
    /\ req.kind = "store"
    /\ raised = "quota"
    /\ calls = <<"split", "embed_many">>
    /\ resp.status = 500

\* the number of calls of capability c made by the request so far
CallCount(cs, c) == Cardinality({k \in 1..Len(cs) : cs[k] = c})

\* the number of upsert batches of the vectors of the request
BatchCount == (Len(vectors) + BatchSize - 1) \div BatchSize

\* C16: within one request each capability (split, batch embed, query
\* embed, store query, generate) is called at most once and upsert at most
\* once per batch; once a call has failed, the request makes no further
\* call.
C16_NoRetry ==
    [][ /\ \A c \in {"split", "embed_many", "embed_one", "query", "generate"} :
              CallCount(calls', c) <= 1
        /\ CallCount(calls', "upsert") <= BatchCount
        /\ raised # "" => calls' \in {calls, << >>} ]_vars

\* a query whose store query failed after the embedding call succeeded
C16_Witness ==
    /\ pc = "done"
    /\ req.kind = "query"
    /\ raised # ""
    /\ calls = <<"embed_one", "query">>

\* the namespace of the (userId, email) pair of the current request
OwnNamespace == "user_" \o req.userId \o "_" \o req.email

\* C17: an ingestion, whether it succeeds or fails after some batches,
\* leaves the records of every namespace other than that of its own
\* (userId, email) pair exactly as they were when the request began.
C17_OnlyOwnNamespaceChanged ==
    req.kind = "store" =>
        {x \in index : x.ns # OwnNamespace} = {x \in index0 : x.ns # OwnNamespace}

\* an ingestion that stored its first batch and failed on the second while
\* another namespace held records
C17_Witness ==
    /\ UpsertFailed
    /\ pc = "done"
    /\ i = BatchSize
    /\ \E x \in index : x.ns = OwnNamespace
    /\ \E x \in index0 : x.ns # OwnNamespace

\* C18: a successful ingestion stores exactly one record per chunk of the
\* chunking step: the number of records it adds to the index equals
\* total_chunks, the number of chunks split_text produced.
C18_OneRecordPerChunk ==
    (pc = "done" /\ req.kind = "store" /\ resp.status = 200) =>
        Cardinality(index \ index0) = nodes[1].metadata.total_chunks

\* C19: every stored record has 0 <= chunk_index < total_chunks, and the
\* records stored by one ingestion all carry the same total_chunks.
C19_ChunkIndexInRange ==
    /\ \A x \in index :
          /\ 0 <= x.metadata.chunk_index
          /\ x.metadata.chunk_index < x.metadata.total_chunks
    /\ req.kind = "store" =>
          \A x, y \in index \ index0 :
              x.metadata.total_chunks = y.metadata.total_chunks

\* an ingestion of two chunks has stored both, the last with index 1 of 2
C19_Witness ==
    /\ pc = "done"
    /\ req.kind = "store"
    /\ resp.status = 200
    /\ \E x, y \in index \ index0 :
          /\ x.metadata.chunk_index = 0
          /\ y.metadata.chunk_index = 1
          /\ y.metadata.total_chunks = 2

\* the chunks of the chunking step of the current store request, as the
\* Documents the handler builds of them
ChunkDocuments == MakeDocuments(req, nodes[1].metadata.total_chunks)

\* C20: the vectors prepared by an ingestion are aligned with the chunks of
\* the chunking step: there is one per chunk, and the i-th carries the i-th
\* chunk's text together with the embedding computed from that text.
C20_ChunksAlignedWithEmbeddings ==
    (req.kind = "store" /\ vectors # << >>) =>
        /\ Len(vectors) = Len(ChunkDocuments)
        /\ \A k \in 1..Len(vectors) :
              /\ k <= Len(ChunkDocuments)
              /\ vectors[k].metadata.text = ChunkDocuments[k].text
              /\ vectors[k].values = Embed(ChunkDocuments[k].text)

\* the metadata fields every stored record must have
RequiredMetadata ==
    {"user_id", "email_id", "title", "text", "chunk_index", "total_chunks",
     "timestamp"}

\* C21: the metadata of every record in the store contains the owner id,
\* the document id, the title, the text, the chunk index, the number of
\* chunks and the creation timestamp.
C21_MetadataComplete ==
    \A x \in index : RequiredMetadata \subseteq DOMAIN x.metadata

\* an ingestion of a re-split chunk has stored two records
C21_Witness ==
    /\ pc = "done"
    /\ req.kind = "store"
    /\ resp.status = 200
    /\ Cardinality(index \ index0) = 2
    /\ nodes[1].metadata.total_chunks = 1

\* C22: record ids are unique within a namespace: the vectors of one
\* ingestion have pairwise distinct ids, no two records of a namespace share
\* an id, and an ingestion leaves every record that was in the store when it
\* began as it was (it overwrites none).
C22_IdsUniqueInNamespace ==
    /\ \A a, b \in 1..Len(vectors) : a # b => vectors[a].id # vectors[b].id
    /\ \A x, y \in index : (x.ns = y.ns /\ x.id = y.id) => x = y
    /\ req.kind = "store" => index0 \subseteq index

\* a second ingestion into a namespace that already held a record succeeded
C22_Witness ==
    /\ pc = "done"
    /\ req.kind = "store"
    /\ resp.status = 200
    /\ \E x \in index0 : x.ns = namespace
    /\ \E y \in index \ index0 : y.ns = namespace

\* the sum of the scores of the matches the store returned
MatchScoreSum == SumSeq([k \in 1..Len(matches) |-> matches[k].score])

\* a is within half a unit of the fourth decimal of sum / n (both in units
\* of 1/100000 after scaling a by 10)
NearestTo4Decimals(a, sum, n) ==
    /\ 2 * (10 * n * a - sum) <= 10 * n
    /\ 2 * (sum - 10 * n * a) <= 10 * n

\* C24: when the store returned matches and the answer was generated, the
\* score of the response is the arithmetic mean of the scores of all
\* returned matches rounded to 4 decimals; the scores 0.9, 0.7, 0.5 give 0.7.
C24_ScoreIsRoundedMean ==
    /\ (pc = "done" /\ req.kind = "query" /\ resp.status = 200
            /\ matches # << >>) =>
          NearestTo4Decimals(resp.score, MatchScoreSum, Len(matches))
    /\ AverageScore(<<[score |-> 90000], [score |-> 70000], [score |-> 50000]>>)
          = 7000

\* an answered query of two matches with different scores whose mean has a
\* fifth decimal that the rounding removed
C24_Witness ==
    /\ pc = "done"
    /\ req.kind = "query"
    /\ resp.status = 200
    /\ Len(matches) = 2
    /\ matches[1].score # matches[2].score
    /\ 20 * resp.score # MatchScoreSum

\* C30: a query request never changes the store: on every path it makes no
\* upsert and no delete call, and while it runs and when it has ended the
\* store holds exactly the records it held when the request began.
C30_QueryLeavesStoreUnchanged ==
    req.kind = "query" =>
        /\ index = index0
        /\ \A k \in 1..Len(calls) : calls[k] \notin {"upsert", "delete"}

\* a query over a non-empty store was answered from a stored record
C30_Witness ==
    /\ pc = "done"
    /\ req.kind = "query"
    /\ resp.status = 200
    /\ matches # << >>
    /\ calls = <<"embed_one", "query", "generate">>
    /\ index # {}

\* C28: in sequential execution at most one instance of each service is
\* ever constructed, and every call that has returned holds the instance
\* the global holds, the same for all callers of that service, whatever
\* argument the call passed.
C28_LaterCallsReuseInstance ==
    /\ \A s \in Services : constructed[s] <= 1
    /\ \A t \in Threads : threads[t].pc = "returned" =>
          /\ threads[t].got # NoInstance
          /\ threads[t].got = instance[threads[t].svc]
          /\ \A u \in Threads :
                (threads[u].pc = "returned" /\ threads[u].svc = threads[t].svc)
                    => threads[u].got = threads[t].got

\* after a first call with the default argument returned, a later call with
\* another argument returned the instance made for the default
C28_Witness ==
    \E t, u \in Threads :
        /\ t # u
        /\ threads[u].pc = "returned"
        /\ threads[t].pc = "returned"
        /\ threads[t].svc = threads[u].svc
        /\ threads[u].arg = "default"
        /\ threads[t].arg = "other"
        /\ threads[t].got.arg = "default"

\* C25: the context chunks handed to the answer generator have one entry
\* per match the store returned, in the returned order, and the context
\* text built of them has one block per entry in that order, numbered from
\* 1 to n; no match is reordered, dropped or duplicated.
C25_ContextPreservesOrder ==
    (req.kind = "query" /\ matches # << >>) =>
        /\ Len(context) = Len(matches)
        /\ \A k \in 1..Len(matches) :
              /\ context[k].score = matches[k].score
              /\ context[k].text = matches[k].metadata.text
              /\ context[k].title = matches[k].metadata.title
        /\ ("generate" \in {calls[k] : k \in 1..Len(calls)}) <=> llm_context.built
        /\ llm_context.built =>
              /\ llm_context.chunks = context
              /\ Len(llm_context.text) = Len(matches)
              /\ \A k \in 1..Len(matches) :
                    /\ llm_context.text[k].source = k
                    /\ llm_context.text[k].content = matches[k].metadata.text
                    /\ llm_context.text[k].title = matches[k].metadata.title
                    /\ llm_context.text[k].relevance = Percent(matches[k].score)

\* an answered query of two matches with different texts and scores
C25_Witness ==
    /\ pc = "done"
    /\ req.kind = "query"
    /\ resp.status = 200
    /\ llm_context.built
    /\ Len(matches) = 2
    /\ matches[1].metadata.text # matches[2].metadata.text
    /\ matches[1].score > matches[2].score

\* C26: _build_context of no chunks returns the fixed text 'No relevant
\* context found.', never the empty text and never a source block.
C26_EmptyContextSentinel ==
    (llm_context.built /\ llm_context.chunks = << >>) =>
        /\ llm_context.text # << >>
        /\ Len(llm_context.text) = 1
        /\ DOMAIN llm_context.text[1] = {"literal"}
        /\ llm_context.text[1].literal = "No relevant context found."

\* _build_context was called with no chunks
C26_Witness ==
    /\ llm_context.built
    /\ llm_context.chunks = << >>
    /\ pc = "idle"

\* C29: find_most_similar over n candidates with top_k = k returns
\* min(k, n) entries with pairwise distinct indices in 0..n-1, each with its
\* candidate's similarity, in non-increasing order of similarity with equal
\* similarities in ascending index order, and no candidate left out has a
\* similarity greater than the smallest returned.
C29_FindMostSimilarTopK ==
    similar.made =>
        LET r == similar.result
            n == Len(similar.sims)
            returned == {r[a].index : a \in 1..Len(r)}
        IN  /\ Len(r) = (IF similar.top_k <= n THEN similar.top_k ELSE n)
            /\ \A a \in 1..Len(r) :
                  /\ r[a].index \in 0..(n - 1)
                  /\ r[a].similarity = similar.sims[r[a].index + 1]
            /\ \A a, b \in 1..Len(r) :
                  a < b =>
                      /\ r[a].index # r[b].index
                      /\ r[a].similarity >= r[b].similarity
                      /\ r[a].similarity = r[b].similarity
                            => r[a].index < r[b].index
            /\ \A c \in 0..(n - 1) :
                  (c \notin returned /\ r # << >>)
                      => similar.sims[c + 1] <= r[Len(r)].similarity

\* three candidates, the first two of equal similarity below the third, and
\* the top two asked for
C29_Witness ==
    /\ similar.made
    /\ similar.sims = <<0, 0, 7>>
    /\ similar.top_k = 2
    /\ similar.result = <<[index |-> 2, similarity |-> 7],
                          [index |-> 0, similarity |-> 0]>>

\* the index.upsert calls caller p made, in order
BatchesOf(p) == SelectSeq(upsertLog, LAMBDA e : e.caller = p)

\* the concatenation of the batches of a sequence of index.upsert calls
RECURSIVE ConcatBatches(_)
ConcatBatches(sent) ==
    IF sent = << >> THEN << >>
    ELSE sent[1].batch \o ConcatBatches(Tail(sent))

\* C23: upsert_vectors with n records and batch size b makes ceil(n/b)
\* index.upsert calls, each of 1 to b records and under the given
\* namespace, whose batches concatenated are the input sequence (while the
\* loop runs: the part of it already passed), and a call that returns
\* returns upserted_count = n.
C23_BatchesCoverInput ==
    \A p \in Callers : upserts[p].pc # "idle" =>
        LET c == upserts[p]
            n == Len(c.vectors)
            sent == BatchesOf(p)
        IN  /\ \A k \in 1..Len(sent) :
                  /\ Len(sent[k].batch) >= 1
                  /\ Len(sent[k].batch) <= c.batch_size
                  /\ sent[k].namespace = c.namespace
            /\ ConcatBatches(sent) = SubSeq(c.vectors, 1, Min(c.i, n))
            /\ c.pc = "returned" =>
                  /\ Len(sent) = (n + c.batch_size - 1) \div c.batch_size
                  /\ ConcatBatches(sent) = c.vectors
                  /\ c.result.upserted_count = n

\* a call with three records and batch size two returned after two batches,
\* while the other caller's batches came in between
C23_Witness ==
    \E p \in Callers :
        /\ upserts[p].pc = "returned"
        /\ Len(upserts[p].vectors) = 3
        /\ upserts[p].batch_size = 2
        /\ Len(BatchesOf(p)) = 2
        /\ Len(upsertLog) >= 3
        /\ upsertLog[1].caller = p
        /\ upsertLog[2].caller # p

\* the store after upsert_vectors call c ran alone on store idx, from
\* record number j + 1 on
RECURSIVE RunAlone(_, _, _)
RunAlone(idx, c, j) ==
    IF j >= Len(c.vectors) THEN idx
    ELSE RunAlone(Upsert(idx,
                         SubSeq(c.vectors, j + 1,
                                Min(j + c.batch_size, Len(c.vectors))),
                         c.namespace, c.r),
                  c, j + c.batch_size)

\* C27: when two ingestions into different namespaces have both returned,
\* however their upsert batches interleaved, the store is what running the
\* one and then the other on the empty store gives, in either order, and
\* every record in a namespace of the two was written by the ingestion of
\* that namespace.
C27_ConcurrentIngestionsIndependent ==
    \A p, q \in Callers :
        (/\ p # q
         /\ upserts[p].pc = "returned"
         /\ upserts[q].pc = "returned"
         /\ upserts[p].namespace # upserts[q].namespace) =>
            /\ index = RunAlone(RunAlone({}, upserts[p], 0), upserts[q], 0)
            /\ index = RunAlone(RunAlone({}, upserts[q], 0), upserts[p], 0)
            /\ \A x \in index : x.ns = upserts[p].namespace =>
                  /\ x.by_user = upserts[p].r.userId
                  /\ x.by_email = upserts[p].r.email
                  /\ \E k \in 1..Len(upserts[p].vectors) :
                        upserts[p].vectors[k].id = x.id

\* two ingestions for different tenants returned after their four batches
\* reached the store in turns
C27_Witness ==
    /\ upserts[1].pc = "returned"
    /\ upserts[2].pc = "returned"
    /\ upserts[1].namespace # upserts[2].namespace
    /\ upserts[1].r.userId # upserts[2].r.userId
    /\ Len(upsertLog) = 4
    /\ upsertLog[1].caller = 1
    /\ upsertLog[2].caller = 2
    /\ upsertLog[3].caller = 1
    /\ upsertLog[4].caller = 2

====
